---- MODULE Spec2Model ----
(***************************************************************************)
(* Calorie Journal: the persisted entry list (AsyncStorage key             *)
(* calorie_journal_entries_v1), the add-entry flow, the History screen,    *)
(* the Dashboard's day summary, the Goals screen and the progress bars.    *)
(*                                                                         *)
(* Time is a line of instants; a calendar day is TicksPerDay consecutive   *)
(* instants, the first being dayjs().startOf('day') and the last           *)
(* dayjs().endOf('day').  A stored date (an ISO string with millisecond    *)
(* precision) and the Date it was written from denote the same instant,    *)
(* so both are the instant's number.                                       *)
(*                                                                         *)
(* A JavaScript value that is summed is a record [t, n]: t is "number",    *)
(* "numstr" (a numeric string), "text" (any other string), "null" or       *)
(* "undefined" (a missing field); n is the number it holds.                *)
(***************************************************************************)
EXTENDS Integers, Sequences, FiniteSets, TLC

\* ------------------------------------------------------------------ bounds
TicksPerDay == 3
MaxListLen == 2
MaxIds == 3
MaxRows == 4
MaxInFlight == 2
MaxTextLen == 2
MaxEdits == 2
MaxProgressInput == 8

\* the days of the model: day 0 and day 1
Days == {0, 1}
Instants == {(d * TicksPerDay) + k : d \in Days, k \in 0 .. TicksPerDay - 1}

\* --------------------------------------------------------------- JS values
JsNum(n) == [t |-> "number", n |-> n]
JsUndefined == [t |-> "undefined", n |-> 0]
JsText == [t |-> "text", n |-> 0]
JsNull == [t |-> "null", n |-> 0]
JsNumStr(n) == [t |-> "numstr", n |-> n]

\* mutant: a missing field counts for 1
NumOr0MissingIsOne(v) ==
  IF v.t \in {"number", "numstr"} THEN v.n ELSE IF v.t = "undefined" THEN 1 ELSE 0

\* Number(v) || 0
NumOr0(v) == IF v.t \in {"number", "numstr"} THEN v.n ELSE 0

\* ------------------------------------------------------------ the summary
MEALS == <<"Breakfast", "Lunch", "Snack", "Dinner">>
MealSet == {MEALS[i] : i \in DOMAIN MEALS}
NoMeal == "<undefined>"

Fields == {"calories", "protein", "carbs", "fat", "fiber"}
\* mutant: the sums start at 1
TotalsStartAtOne == [f \in Fields |-> 1]

ZeroTotals == [f \in Fields |-> 0]

StartOfDay(t) == (t \div TicksPerDay) * TicksPerDay
EndOfDay(t) == StartOfDay(t) + TicksPerDay - 1

\* mutant: the day's first and last instants count
IsTodayInclusive(e, t) == e.date >= StartOfDay(t) /\ e.date <= EndOfDay(t)

\* dayjs(e.date).isAfter(start) && dayjs(e.date).isBefore(end)
IsToday(e, t) == e.date > StartOfDay(t) /\ e.date < EndOfDay(t)

\* mutant: the filter rewrites the meal of the entries it keeps
TodayEntriesNormalised(list, t) ==
  LET kept == SelectSeq(list, LAMBDA e : IsToday(e, t))
  IN [i \in DOMAIN kept |->
        [kept[i] EXCEPT !.meal = IF kept[i].meal \in MealSet THEN kept[i].meal ELSE "Snack"]]

TodayEntries(list, t) == SelectSeq(list, LAMBDA e : IsToday(e, t))

\* mutant: the calories of an entry replace the running sum
AddEntryOverwrites(acc, e) ==
  [f \in Fields |-> IF f = "calories" THEN NumOr0(e[f]) ELSE acc[f] + NumOr0(e[f])]

\* mutant: the sugar of an entry counts as calories
AddEntryCountsSugar(acc, e) ==
  [f \in Fields |-> IF f = "calories" THEN acc[f] + NumOr0(e[f]) + NumOr0(e.sugar)
                    ELSE acc[f] + NumOr0(e[f])]

\* one step of the reduce: acc + (Number(e.f) || 0), field by field
AddEntry(acc, e) == [f \in Fields |-> acc[f] + NumOr0(e[f])]

RECURSIVE Reduce(_, _)
Reduce(entries, acc) ==
  IF entries = <<>> THEN acc
  ELSE Reduce(Tail(entries), AddEntry(acc, Head(entries)))

Totals(entries) == Reduce(entries, ZeroTotals)

\* mutant: an entry of no known meal goes to the first meal
MealKeyFirst(e) ==
  IF e.meal # NoMeal /\ e.meal # "" /\ e.meal \in MealSet THEN e.meal ELSE MEALS[1]

\* e.meal && MEALS.includes(e.meal) ? e.meal : 'Snack'
MealKey(e) ==
  IF e.meal # NoMeal /\ e.meal # "" /\ e.meal \in MealSet THEN e.meal ELSE "Snack"

RECURSIVE Group(_, _)
Group(entries, grouped) ==
  IF entries = <<>> THEN grouped
  ELSE LET e == Head(entries)
           key == MealKey(e)
       IN Group(Tail(entries), [grouped EXCEPT ![key] = AddEntry(grouped[key], e)])

\* mutant: an entry of no known meal is skipped
ByMealSkipsUnknown(entries) ==
  Group(SelectSeq(entries, LAMBDA e : e.meal \in MealSet), [m \in MealSet |-> ZeroTotals])

\* mutant: Dinner starts with a calorie
ByMealSeeded(entries) ==
  Group(entries, [m \in MealSet |->
                    IF m = "Dinner" THEN [f \in Fields |-> IF f = "calories" THEN 1 ELSE 0]
                    ELSE ZeroTotals])

ByMeal(entries) == Group(entries, [m \in MealSet |-> ZeroTotals])

\* ---------------------------------------------------------------- storage
NoItem == [present |-> FALSE, list |-> <<>>]
Item(list) == [present |-> TRUE, list |-> list]

\* json ? JSON.parse(json) : []
LoadEntriesOf(s) == IF s.present THEN s.list ELSE <<>>

VARIABLES
  store,        \* the document under calorie_journal_entries_v1
  now,          \* the wall clock
  formDate,     \* the add form's date field
  nRows,        \* the add form's number of meal rows
  saves,        \* submissions in flight
  nextId,       \* ids handed out so far, plus one
  alertMsg,     \* the last alert shown
  histMounted,  \* History's mount effect has loaded
  histEntries,  \* History's entries state
  dashLoaded,   \* the Dashboard's mount effect has loaded
  dashEntries,  \* the Dashboard's entries state
  legacyTotals, \* the totals state of the four-field dashboard
  lastWrite     \* history variable: the last replacement of the document

entryVars == <<store, now, formDate, nRows, saves, nextId, alertMsg, histMounted,
               histEntries, dashLoaded, dashEntries, legacyTotals, lastWrite>>

VARIABLES
  goalsStore,   \* the document under calorie_journal_goals_v1
  goals,        \* the Goals screen's goals state
  goalsLoaded,  \* the Goals screen's mount effect has loaded
  goalEdits     \* edits of a goal field so far

goalVars == <<goalsStore, goals, goalsLoaded, goalEdits>>

VARIABLES
  pValue,       \* the value a progress bar is rendered with
  pGoal,        \* the goal it is rendered with
  pct,          \* Progress: the percentage of the bar
  statWidth     \* Stat: the percentage of the bar

progressVars == <<pValue, pGoal, pct, statWidth>>

VARIABLES
  formErrors,   \* the add form's formState.errors: the codes of the resolver's issues
  corrupt,      \* the storage keys whose document is not valid JSON
  uncaught      \* the operations whose promise rejected with nothing to catch it

faultVars == <<formErrors, corrupt, uncaught>>

\* JSON.parse(json) throws a SyntaxError: the key holds text that is not JSON
ParseThrows(key) == key \in corrupt

vars == <<entryVars, goalVars, progressVars, faultVars>>

NoWrite == [kind |-> "none", id |-> 0, batch |-> <<>>, basis |-> <<>>]


\* --------------------------------------------------------------- add flow
FormFields == Fields \cup {"sugar"}

\* what a meal row's inputs can hold: untouched, or text that Number() reads as n
EmptyRow == [f \in FormFields |-> JsUndefined]
FullRow == [calories |-> [t |-> "numstr", n |-> 5], protein |-> [t |-> "numstr", n |-> 1],
            carbs |-> [t |-> "numstr", n |-> 2], fat |-> [t |-> "numstr", n |-> 1],
            fiber |-> [t |-> "numstr", n |-> 3], sugar |-> JsUndefined]
RowInputs == {EmptyRow, FullRow}

\* further contents of a row: "0" and "" (Number reads both as 0) with the other
\* fields untouched, a value in sugar alone, a negative number, text that is no number
ZeroRow == [EmptyRow EXCEPT !.calories = [t |-> "numstr", n |-> 0],
                            !.protein = [t |-> "numstr", n |-> 0]]
SugarRow == [EmptyRow EXCEPT !.sugar = [t |-> "numstr", n |-> 4]]
NegativeRow == [EmptyRow EXCEPT !.calories = [t |-> "numstr", n |-> 0 - 5],
                                !.protein = [t |-> "numstr", n |-> 1]]
TextRow == [EmptyRow EXCEPT !.calories = JsText, !.protein = [t |-> "numstr", n |-> 1]]
ValidInputs == {FullRow, ZeroRow, SugarRow}
InvalidInputs == RowInputs \cup {NegativeRow, TextRow}

\* the name of the i-th row: the three default rows, then `Meal ${fields.length + 1}`
RowName(i) ==
  CASE i = 1 -> "Breakfast" [] i = 2 -> "Lunch" [] i = 3 -> "Dinner"
    [] i = 4 -> "Meal 4" [] i = 5 -> "Meal 5" [] OTHER -> "Meal 6"

\* mutant: no nonnegative()
ZodValidAnySign(v) == v.t = "undefined" \/ v.t = "numstr"

\* z.coerce.number().nonnegative().optional()
ZodValid(v) == v.t = "undefined" \/ (v.t = "numstr" /\ v.n >= 0)
ZodCoerce(v) == IF v.t = "undefined" THEN JsUndefined ELSE JsNum(v.n)
mealSchema(row) == \A f \in FormFields : ZodValid(row[f])
dayEntrySchema(rows) == Len(rows) >= 1 /\ \A i \in DOMAIN rows : mealSchema(rows[i])

\* the codes of the issues the resolver reports: Number(text) is NaN (invalid_type),
\* the number is negative (too_small), the array is empty (too_small)
ZodIssues(rows) ==
  {"invalid_type" : i \in {k \in DOMAIN rows : \E f \in FormFields : rows[k][f].t = "text"}}
    \cup {"too_small" : i \in {k \in DOMAIN rows :
                                  \E f \in FormFields :
                                    rows[k][f].t = "numstr" /\ rows[k][f].n < 0}}
    \cup (IF Len(rows) = 0 THEN {"too_small"} ELSE {})

\* Number(meal.f || 0)
FieldValue(v) == IF v.t = "number" THEN v.n ELSE 0

\* mutant: every row counts
hasAnyValueAlways(row) == \A f \in FormFields : FieldValue(ZodCoerce(row[f])) >= 0

\* mutant: sugar is not looked at
hasAnyValueButSugar(row) == \E f \in Fields : FieldValue(ZodCoerce(row[f])) > 0

hasAnyValue(row) == \E f \in FormFields : FieldValue(ZodCoerce(row[f])) > 0

NewEntry(id, date, i, row) ==
  [id |-> id, date |-> date, name |-> RowName(i), meal |-> RowName(i),
   calories |-> JsNum(FieldValue(ZodCoerce(row.calories))),
   protein |-> JsNum(FieldValue(ZodCoerce(row.protein))),
   carbs |-> JsNum(FieldValue(ZodCoerce(row.carbs))),
   fat |-> JsNum(FieldValue(ZodCoerce(row.fat))),
   fiber |-> JsNum(FieldValue(ZodCoerce(row.fiber))),
   sugar |-> JsNum(FieldValue(ZodCoerce(row.sugar)))]

\* the loop of onSubmit over data.meals from row i on, ids handed out from id on
RECURSIVE entriesToSave(_, _, _, _)
entriesToSave(rows, i, id, date) ==
  IF i > Len(rows) THEN <<>>
  ELSE IF ~hasAnyValue(rows[i]) THEN entriesToSave(rows, i + 1, id, date)
  ELSE <<NewEntry(id, date, i, rows[i])>> \o entriesToSave(rows, i + 1, id + 1, date)

\* mutant: the new entries are put after the stored ones
UpdatedAppends(newEntries, existing) == existing \o newEntries

\* mutant: the stored entries are written twice
UpdatedDuplicates(newEntries, existing) == newEntries \o existing \o existing

\* [...newEntries, ...existing]
Updated(newEntries, existing) == newEntries \o existing

Pending(batch) == [batch |-> batch, loaded |-> FALSE, existing |-> <<>>]

\* reset({date: new Date(), meals: [Breakfast, Lunch, Dinner]})
ResetForm == formDate' = now /\ nRows' = 3

\* the "+ Add meal" button: append({name: nextMealName})
AddMeal ==
  /\ nRows < MaxRows
  /\ nRows' = nRows + 1
  /\ UNCHANGED <<store, now, formDate, saves, nextId, alertMsg, histMounted, histEntries,
                 dashLoaded, dashEntries, legacyTotals, lastWrite>>
  /\ UNCHANGED <<goalVars, progressVars, faultVars>>

\* the date picker (mode="date"): onChange(selectedDate), the picked day at the
\* time of day the field held
PickDate(day) ==
  /\ formDate \div TicksPerDay # day
  /\ formDate' = (day * TicksPerDay) + (formDate % TicksPerDay)
  /\ UNCHANGED <<store, now, nRows, saves, nextId, alertMsg, histMounted, histEntries,
                 dashLoaded, dashEntries, legacyTotals, lastWrite>>
  /\ UNCHANGED <<goalVars, progressVars, faultVars>>

\* handleSubmit(onSubmit) up to the call of saveEntries: the form validates, the
\* entries are built; an empty batch returns from saveEntries at once
Submit(rows) ==
  /\ Len(rows) = nRows
  /\ dayEntrySchema(rows)
  /\ LET batch == entriesToSave(rows, 1, nextId, formDate) IN
       /\ nextId + Len(batch) - 1 <= MaxIds
       /\ nextId' = nextId + Len(batch)
       /\ IF batch = <<>>
            THEN /\ ResetForm
                 /\ alertMsg' = "Nothing to save"
                 /\ UNCHANGED saves
            ELSE /\ Cardinality(saves) < MaxInFlight
                 /\ saves' = saves \cup {Pending(batch)}
                 /\ UNCHANGED <<formDate, nRows, alertMsg>>
  /\ formErrors' = {}
  /\ UNCHANGED <<store, now, histMounted, histEntries, dashLoaded, dashEntries,
                 legacyTotals, lastWrite>>
  /\ UNCHANGED <<goalVars, progressVars, corrupt, uncaught>>

\* handleSubmit(onSubmit) when the resolver reports issues: formState.errors holds
\* them and onSubmit is not called
Reject(rows) ==
  /\ Len(rows) = nRows
  /\ ~dayEntrySchema(rows)
  /\ formErrors' = ZodIssues(rows)
  /\ UNCHANGED <<entryVars, goalVars, progressVars, corrupt, uncaught>>

\* the Save button
handleSubmit(rows) == Submit(rows) \/ Reject(rows)

\* saveEntries: const existing = await loadEntries()
\* JSON.parse throws on a document that is not JSON: saveEntries and onSubmit
\* reject, nothing is written, the form is not reset and no alert is shown
SaveLoad(op) ==
  /\ op \in saves
  /\ ~op.loaded
  /\ IF ParseThrows("entries")
       THEN /\ saves' = saves \ {op}
            /\ uncaught' = uncaught \cup {"onSubmit"}
       ELSE /\ saves' = (saves \ {op})
                          \cup {[op EXCEPT !.loaded = TRUE, !.existing = LoadEntriesOf(store)]}
            /\ UNCHANGED uncaught
  /\ UNCHANGED <<store, now, formDate, nRows, nextId, alertMsg, histMounted, histEntries,
                 dashLoaded, dashEntries, legacyTotals, lastWrite>>
  /\ UNCHANGED <<goalVars, progressVars, formErrors, corrupt>>

\* saveEntries: setItem(STORAGE_KEY, JSON.stringify(updated)); then onSubmit resets
\* the form and alerts
SaveWrite(op) ==
  /\ op \in saves
  /\ op.loaded
  /\ store' = Item(Updated(op.batch, op.existing))
  /\ lastWrite' = [kind |-> "save", id |-> 0, batch |-> op.batch, basis |-> op.existing]
  /\ saves' = saves \ {op}
  /\ ResetForm
  /\ formErrors' = {}
  /\ corrupt' = corrupt \ {"entries"}
  /\ alertMsg' = "Saved"
  /\ UNCHANGED <<now, nextId, histMounted, histEntries, dashLoaded, dashEntries,
                 legacyTotals>>
  /\ UNCHANGED <<goalVars, progressVars, uncaught>>

\* ---------------------------------------------------------------- History
\* the mount effect: load()
HistoryLoad ==
  /\ ~histMounted
  /\ histMounted' = TRUE
  /\ IF ParseThrows("entries")
       THEN uncaught' = uncaught \cup {"load"} /\ UNCHANGED histEntries
       ELSE histEntries' = LoadEntriesOf(store) /\ UNCHANGED uncaught
  /\ UNCHANGED <<store, now, formDate, nRows, saves, nextId, alertMsg, dashLoaded,
                 dashEntries, legacyTotals, lastWrite>>
  /\ UNCHANGED <<goalVars, progressVars, formErrors, corrupt>>

\* mutant: the entries kept are renamed
FilteredRenames(entries, id) ==
  LET kept == SelectSeq(entries, LAMBDA e : e.id # id)
  IN [i \in DOMAIN kept |-> [kept[i] EXCEPT !.name = "edited"]]

\* entries.filter((e) => e.id !== id)
Filtered(entries, id) == SelectSeq(entries, LAMBDA e : e.id # id)

\* the Delete button of a listed item
deleteEntry(id) ==
  /\ \E i \in DOMAIN histEntries : histEntries[i].id = id
  /\ histEntries' = Filtered(histEntries, id)
  /\ store' = Item(Filtered(histEntries, id))
  /\ lastWrite' = [kind |-> "delete", id |-> id, batch |-> <<>>, basis |-> histEntries]
  /\ corrupt' = corrupt \ {"entries"}
  /\ UNCHANGED <<now, formDate, nRows, saves, nextId, alertMsg, histMounted, dashLoaded,
                 dashEntries, legacyTotals>>
  /\ UNCHANGED <<goalVars, progressVars, formErrors, uncaught>>

\* -------------------------------------------------------------- Dashboard
\* the mount effect: loadToday()
loadToday ==
  /\ ~dashLoaded
  /\ dashLoaded' = TRUE
  /\ IF ParseThrows("entries")
       THEN uncaught' = uncaught \cup {"loadToday"} /\ UNCHANGED dashEntries
       ELSE dashEntries' = TodayEntries(LoadEntriesOf(store), now) /\ UNCHANGED uncaught
  /\ UNCHANGED <<store, now, formDate, nRows, saves, nextId, alertMsg, histMounted,
                 histEntries, legacyTotals, lastWrite>>
  /\ UNCHANGED <<goalVars, progressVars, formErrors, corrupt>>

\* what the Dashboard renders
totals == Totals(dashEntries)
byMeal == ByMeal(dashEntries)

\* the four-field dashboard's mount effect: loadTodayTotals()
loadTodayTotals ==
  /\ ~legacyTotals.loaded
  /\ IF ParseThrows("entries")
       THEN /\ uncaught' = uncaught \cup {"loadTodayTotals"}
            /\ legacyTotals' = [legacyTotals EXCEPT !.loaded = TRUE]
       ELSE /\ LET sum == Totals(TodayEntries(LoadEntriesOf(store), now)) IN
                 legacyTotals' = [loaded |-> TRUE, calories |-> sum.calories,
                                  protein |-> sum.protein, carbs |-> sum.carbs, fat |-> sum.fat]
            /\ UNCHANGED uncaught
  /\ UNCHANGED <<store, now, formDate, nRows, saves, nextId, alertMsg, histMounted,
                 histEntries, dashLoaded, dashEntries, lastWrite>>
  /\ UNCHANGED <<goalVars, progressVars, formErrors, corrupt>>

\* ------------------------------------------------------------ initial state
NoLegacyTotals == [loaded |-> FALSE, calories |-> 0, protein |-> 0, carbs |-> 0, fat |-> 0]

InitScreens ==
  /\ formDate = now
  /\ nRows = 3
  /\ saves = {}
  /\ nextId = 1
  /\ alertMsg = "none"
  /\ histMounted = FALSE
  /\ histEntries = <<>>
  /\ dashLoaded = FALSE
  /\ dashEntries = <<>>
  /\ legacyTotals = NoLegacyTotals
  /\ lastWrite = NoWrite
  /\ formErrors = {}
  /\ uncaught = {}

Rows(n) == [1 .. n -> RowInputs]
ValidRows(n) == [1 .. n -> ValidInputs]
InvalidRows(n) == [1 .. n -> InvalidInputs]

\* ------------------------------------------------------------------ goals
\* A goal is a decimal number of at most MaxTextLen - 1 fractional digits, held
\* as the whole number of its units of 10^-(MaxTextLen - 1).
GoalScale == 10 ^ (MaxTextLen - 1)

\* A field of a goal set is a JavaScript value [t, n]: a finite number, Infinity, or
\* the null that JSON.parse returns.
JsInfinity == [t |-> "infinity", n |-> 0]

\* mutant: other defaults on the Goals screen
DefaultGoalsOfTwoThousand ==
  [calories |-> JsNum(2000 * GoalScale), protein |-> JsNum(120 * GoalScale),
   carbs |-> JsNum(230 * GoalScale), fat |-> JsNum(50 * GoalScale),
   fiber |-> JsNum(25 * GoalScale)]

DEFAULT_GOALS ==
  [calories |-> JsNum(1760 * GoalScale), protein |-> JsNum(120 * GoalScale),
   carbs |-> JsNum(230 * GoalScale), fat |-> JsNum(50 * GoalScale),
   fiber |-> JsNum(25 * GoalScale)]

\* the Dashboard's goals
GOALS ==
  [calories |-> JsNum(1760 * GoalScale), protein |-> JsNum(120 * GoalScale),
   carbs |-> JsNum(230 * GoalScale), fat |-> JsNum(50 * GoalScale),
   fiber |-> JsNum(25 * GoalScale)]

\* mutant: the fiber goal is left out of the document
StringifyGoalsDropsField(g) ==
  [f \in DOMAIN g \ {"fiber"} |-> IF g[f].t = "number" THEN g[f] ELSE JsNull]

\* JSON.stringify(goals): a finite number is written as it is, Infinity as null
StringifyGoals(g) == [f \in DOMAIN g |-> IF g[f].t = "number" THEN g[f] ELSE JsNull]

\* JSON.parse(json): numbers and nulls as written
ParseGoals(doc) == doc

NoGoalsItem == [present |-> FALSE, doc |-> DEFAULT_GOALS]
GoalsItem(g) == [present |-> TRUE, doc |-> g]

\* The largest finite number has MaxDoubleDigits digits before the point: a whole
\* number of more digits reads as Infinity.
MaxDoubleDigits == 309

\* what a goal field's text can hold: short texts, and one of digits too many to
\* be finite
GoalChars == {"1", ".", "-"}
LongDigits == [i \in 1 .. MaxDoubleDigits + 1 |-> "1"]
GoalTexts == (UNION {[1 .. n -> GoalChars] : n \in 0 .. MaxTextLen}) \cup {LongDigits}

DigitValue(c) ==
  CASE c = "0" -> 0 [] c = "1" -> 1 [] c = "2" -> 2 [] c = "3" -> 3 [] c = "4" -> 4
    [] c = "5" -> 5 [] c = "6" -> 6 [] c = "7" -> 7 [] c = "8" -> 8 [] c = "9" -> 9

IsDigit(c) == c \in {"0", "1", "2", "3", "4", "5", "6", "7", "8", "9"}

\* value.replace(/[^0-9.]/g, '')
StripNonNumeric(text) == SelectSeq(text, LAMBDA c : IsDigit(c) \/ c = ".")

RECURSIVE DigitsValue(_)
DigitsValue(ds) ==
  IF ds = <<>> THEN 0
  ELSE (DigitsValue(SubSeq(ds, 1, Len(ds) - 1)) * 10) + DigitValue(ds[Len(ds)])

NaN == [t |-> "nan", n |-> 0]
Finite(v) == JsNum(v)

\* Number(s) of a string of digits and dots, in units of 1 / GoalScale
NumberOf(s) ==
  LET dots == {i \in DOMAIN s : s[i] = "."} IN
    IF s = <<>> THEN Finite(0)
    ELSE IF Cardinality(dots) > 1 \/ Len(s) = Cardinality(dots) THEN NaN
    ELSE IF dots = {} /\ Len(s) > MaxDoubleDigits THEN JsInfinity
    ELSE IF dots = {} THEN Finite(DigitsValue(s) * GoalScale)
    ELSE LET d == CHOOSE i \in dots : TRUE
             whole == SubSeq(s, 1, d - 1)
             frac == SubSeq(s, d + 1, Len(s))
         IN Finite((DigitsValue(whole) * GoalScale)
                     + (DigitsValue(frac) * (10 ^ (MaxTextLen - 1 - Len(frac)))))

\* Number(...) || 0: NaN and 0 are falsy, Infinity is not
Numeric(text) ==
  LET n == NumberOf(StripNonNumeric(text)) IN IF n.t = "nan" THEN JsNum(0) ELSE n

\* the mount effect: setGoals(json ? JSON.parse(json) : DEFAULT_GOALS)
GoalsLoad ==
  /\ ~goalsLoaded
  /\ goalsLoaded' = TRUE
  /\ IF ParseThrows("goals")
       THEN uncaught' = uncaught \cup {"GoalsScreen effect"} /\ UNCHANGED goals
       ELSE /\ goals' = IF goalsStore.present THEN ParseGoals(goalsStore.doc) ELSE DEFAULT_GOALS
            /\ UNCHANGED uncaught
  /\ UNCHANGED <<goalsStore, goalEdits>>
  /\ UNCHANGED <<entryVars, progressVars, formErrors, corrupt>>

\* onChangeText of a goal field
update(key, text) ==
  /\ goalEdits < MaxEdits
  /\ goalEdits' = goalEdits + 1
  /\ goals' = [goals EXCEPT ![key] = Numeric(text)]
  /\ UNCHANGED <<goalsStore, goalsLoaded>>
  /\ UNCHANGED <<entryVars, progressVars, faultVars>>

\* the "Save Goals" button
save ==
  /\ goalsStore' = GoalsItem(StringifyGoals(goals))
  /\ corrupt' = corrupt \ {"goals"}
  /\ UNCHANGED <<goals, goalsLoaded, goalEdits>>
  /\ UNCHANGED <<entryVars, progressVars, formErrors, uncaught>>

\* the "Reset to defaults" button
reset ==
  /\ goals' = DEFAULT_GOALS
  /\ goalsStore' = GoalsItem(StringifyGoals(DEFAULT_GOALS))
  /\ corrupt' = corrupt \ {"goals"}
  /\ UNCHANGED <<goalsLoaded, goalEdits>>
  /\ UNCHANGED <<entryVars, progressVars, formErrors, uncaught>>

InitGoals ==
  /\ goalsStore = NoGoalsItem
  /\ goals = DEFAULT_GOALS
  /\ goalsLoaded = FALSE
  /\ goalEdits = 0

\* ----------------------------------------------------------- progress bars
\* A JavaScript number: a fraction num / den with den > 0, an infinity or NaN.
Fraction(num, den) == [k |-> "fin", num |-> num, den |-> den]
PlusInfinity == [k |-> "+inf", num |-> 0, den |-> 1]
MinusInfinity == [k |-> "-inf", num |-> 0, den |-> 1]
NotANumber == [k |-> "nan", num |-> 0, den |-> 1]
NotRendered == [k |-> "none", num |-> 0, den |-> 1]

\* a / b
Divide(a, b) ==
  IF b = 0 THEN (IF a > 0 THEN PlusInfinity ELSE IF a < 0 THEN MinusInfinity ELSE NotANumber)
  ELSE IF b > 0 THEN Fraction(a, b) ELSE Fraction(0 - a, 0 - b)

\* x * 100
Times100(x) == IF x.k = "fin" THEN Fraction(x.num * 100, x.den) ELSE x

\* Math.max(0, x)
MathMax0(x) ==
  CASE x.k = "nan" -> NotANumber
    [] x.k = "+inf" -> PlusInfinity
    [] x.k = "-inf" -> Fraction(0, 1)
    [] OTHER -> IF x.num < 0 THEN Fraction(0, 1) ELSE x

\* mutant: no upper clamp
MathMin100Unclamped(x) == x

\* Math.min(100, x)
MathMin100(x) ==
  CASE x.k = "nan" -> NotANumber
    [] x.k = "+inf" -> Fraction(100, 1)
    [] x.k = "-inf" -> MinusInfinity
    [] OTHER -> IF x.num > 100 * x.den THEN Fraction(100, 1) ELSE x

\* Progress: Math.min(100, Math.max(0, (value / goal) * 100))
ProgressPct(value, goal) == MathMin100(MathMax0(Times100(Divide(value, goal))))

\* Stat: Math.min(100, Math.max(0, progress * 100)), progress being total / goal
StatPct(value, goal) == MathMin100(MathMax0(Times100(Divide(value, goal))))

Progress ==
  /\ pct = NotRendered
  /\ pct' = ProgressPct(pValue, pGoal)
  /\ UNCHANGED <<pValue, pGoal, statWidth>>
  /\ UNCHANGED <<entryVars, goalVars, faultVars>>

Stat ==
  /\ statWidth = NotRendered
  /\ statWidth' = StatPct(pValue, pGoal)
  /\ UNCHANGED <<pValue, pGoal, pct>>
  /\ UNCHANGED <<entryVars, goalVars, faultVars>>

InitProgress ==
  /\ pValue = 0
  /\ pGoal = GOALS.calories.n
  /\ pct = NotRendered
  /\ statWidth = NotRendered

\* --------------------------------------------------------- specifications
\* The screens share nothing but the stored document, so each specification
\* runs the add flow with one of them.

\* Spec: a fresh install; the add flow and the History screen.  Nothing here reads
\* the clock but the form's reset, and no date is compared: the session is one
\* instant inside a day.
Noon == StartOfDay(0) + 1

Init ==
  /\ store = NoItem
  /\ corrupt = {}
  /\ now = Noon
  /\ InitScreens
  /\ InitGoals
  /\ InitProgress

Next ==
  \/ AddMeal
  \/ \E rows \in Rows(nRows) : Submit(rows)
  \/ \E op \in saves : SaveLoad(op)
  \/ \E op \in saves : SaveWrite(op)
  \/ HistoryLoad
  \/ \E id \in 1 .. MaxIds : deleteEntry(id)

Spec == Init /\ [][Next]_vars

\* SpecOneAtATime: Spec with one submission in flight at a time: the single writer
\* the design assumes.
NextOneAtATime ==
  \/ AddMeal
  \/ \E rows \in Rows(nRows) : saves = {} /\ Submit(rows)
  \/ \E op \in saves : SaveLoad(op)
  \/ \E op \in saves : SaveWrite(op)
  \/ HistoryLoad
  \/ \E id \in 1 .. MaxIds : deleteEntry(id)

SpecOneAtATime == Init /\ [][NextOneAtATime]_vars

\* SpecOverlap: a fresh install; the add flow alone, the Save button pressable
\* while an earlier submission is still in flight.
NextOverlap ==
  \/ AddMeal
  \/ \E rows \in Rows(nRows) : Submit(rows)
  \/ \E op \in saves : SaveLoad(op)
  \/ \E op \in saves : SaveWrite(op)

SpecOverlap == Init /\ [][NextOverlap]_vars

\* SpecDashboard: a fresh install at any instant; the add flow, one submission at
\* a time, with the date picker, and the Dashboard.
InitDashboard ==
  /\ store = NoItem
  /\ corrupt = {}
  /\ now \in Instants
  /\ InitScreens
  /\ InitGoals
  /\ InitProgress

NextDashboard ==
  \/ \E day \in Days : PickDate(day)
  \/ \E rows \in Rows(nRows) : saves = {} /\ Submit(rows)
  \/ \E op \in saves : SaveLoad(op)
  \/ \E op \in saves : SaveWrite(op)
  \/ loadToday

SpecDashboard == InitDashboard /\ [][NextDashboard]_vars


\* SpecSummary: the day summary as a function of the stored list and the reference
\* instant.  The document holds any list of at most MaxListLen entries, on the
\* instants of day 0, of any meal: one of the four, another string, none; its
\* carbs are a number, a numeric string, other text or null, its fiber may be missing.
SummaryMeals == MealSet \cup {"Meal 4", NoMeal}

SummaryEntry(id, date, meal) ==
  [id |-> id, date |-> date, name |-> "food", meal |-> meal,
   calories |-> JsNum(4 + id), protein |-> JsNum(id),
   carbs |-> CASE meal = "Dinner" -> JsText [] meal = "Snack" -> JsNull
               [] meal = "Breakfast" -> JsNumStr(2) [] OTHER -> JsNum(2),
   fat |-> JsNum(1),
   fiber |-> IF meal \in {"Lunch", NoMeal} THEN JsUndefined ELSE JsNum(3),
   sugar |-> JsNum(1),
   sodium |-> JsNum(9)]

SummaryLists ==
  UNION {{[i \in 1 .. n |-> SummaryEntry(i, d[i], m[i])] :
            d \in [1 .. n -> 0 .. TicksPerDay - 1], m \in [1 .. n -> SummaryMeals]} :
         n \in 0 .. MaxListLen}

InitSummary ==
  /\ store \in {Item(list) : list \in SummaryLists}
  /\ corrupt = {}
  /\ now \in Instants
  /\ InitScreens
  /\ InitGoals
  /\ InitProgress

NextSummary ==
  \/ loadToday
  \/ loadTodayTotals

SpecSummary == InitSummary /\ [][NextSummary]_vars

\* SpecSubmit: a fresh install; the add form filled with contents the resolver
\* accepts, one submission at a time.
NextSubmit ==
  \/ AddMeal
  \/ \E rows \in ValidRows(nRows) : saves = {} /\ Submit(rows)
  \/ \E op \in saves : SaveLoad(op)
  \/ \E op \in saves : SaveWrite(op)

SpecSubmit == Init /\ [][NextSubmit]_vars

\* SpecReject: a fresh install; the add form filled with contents of which the
\* resolver rejects some, one submission at a time.
NextReject ==
  \/ \E rows \in InvalidRows(nRows) : saves = {} /\ Submit(rows)
  \/ \E rows \in InvalidRows(nRows) : Reject(rows)
  \/ \E op \in saves : SaveLoad(op)
  \/ \E op \in saves : SaveWrite(op)

SpecReject == Init /\ [][NextReject]_vars

\* SpecMalformed: one or both storage keys hold text that is not JSON when the app
\* starts; the Dashboard, History, the add flow and the Goals screen over them.
InitMalformed ==
  /\ corrupt \in (SUBSET {"entries", "goals"}) \ {{}}
  /\ store = IF "entries" \in corrupt THEN Item(<<>>) ELSE NoItem
  /\ goalsStore = IF "goals" \in corrupt THEN GoalsItem(DEFAULT_GOALS) ELSE NoGoalsItem
  /\ goals = DEFAULT_GOALS
  /\ goalsLoaded = FALSE
  /\ goalEdits = 0
  /\ now = Noon
  /\ InitScreens
  /\ InitProgress

NextMalformed ==
  \/ loadToday
  \/ HistoryLoad
  \/ \E rows \in Rows(nRows) : saves = {} /\ Submit(rows)
  \/ \E op \in saves : SaveLoad(op)
  \/ \E op \in saves : SaveWrite(op)
  \/ GoalsLoad
  \/ save

SpecMalformed == InitMalformed /\ [][NextMalformed]_vars

\* SpecGoals: the Goals screen over the goals document, nothing stored at first.
InitGoalsScreen ==
  /\ store = NoItem
  /\ corrupt = {}
  /\ now = Noon
  /\ InitScreens
  /\ InitGoals
  /\ InitProgress

NextGoals ==
  \/ GoalsLoad
  \/ \E key \in Fields, text \in GoalTexts : update(key, text)
  \/ save
  \/ reset

SpecGoals == InitGoalsScreen /\ [][NextGoals]_vars

\* SpecProgress: the two progress bars as functions of the value and the goal.
InitProgressInputs ==
  /\ store = NoItem
  /\ corrupt = {}
  /\ now = Noon
  /\ InitScreens
  /\ InitGoals
  /\ pValue \in 0 .. MaxProgressInput
  /\ pGoal \in (0 - 1) .. MaxProgressInput
  /\ pct = NotRendered
  /\ statWidth = NotRendered

NextProgress ==
  \/ Progress
  \/ Stat

SpecProgress == InitProgressInputs /\ [][NextProgress]_vars

\* ------------------------------------------------------------------ claims
StoredList == LoadEntriesOf(store)

\* the sum of field f over the entries of list at the positions in S
RECURSIVE SumAt(_, _, _)
SumAt(S, list, f) ==
  IF S = {} THEN 0
  ELSE LET i == CHOOSE x \in S : TRUE
       IN NumOr0(list[i][f]) + SumAt(S \ {i}, list, f)

\* C1: each of the five day totals equals the sum of that field over the four meal
\* groups Breakfast, Lunch, Snack and Dinner.
C1_TotalsAreSumOfMeals ==
  dashLoaded =>
    \A f \in Fields :
      totals[f] = byMeal["Breakfast"][f] + byMeal["Lunch"][f]
                    + byMeal["Snack"][f] + byMeal["Dinner"][f]

\* two entries of the day, one of a meal that is none of the four
C1_Witness ==
  /\ dashLoaded
  /\ Len(dashEntries) >= 2
  /\ \E i, j \in DOMAIN dashEntries :
       dashEntries[i].meal = "Dinner" /\ dashEntries[j].meal = "Meal 4"

\* C2: an entry is in the day summary exactly when its date is on the reference
\* day and is neither the day's first instant nor its last; the totals, of both
\* dashboards, are the sums over these entries alone.
SameDay(date, t) == date \div TicksPerDay = t \div TicksPerDay
OnBoundary(date) == date % TicksPerDay \in {0, TicksPerDay - 1}
Contributing(list, t) ==
  {i \in DOMAIN list : SameDay(list[i].date, t) /\ ~OnBoundary(list[i].date)}

C2_StrictlyInsideTheDay ==
  LET C == Contributing(StoredList, now) IN
    /\ dashLoaded =>
         /\ {e.id : e \in {dashEntries[k] : k \in DOMAIN dashEntries}}
              = {StoredList[i].id : i \in C}
         /\ Len(dashEntries) = Cardinality(C)
         /\ \A f \in Fields : totals[f] = SumAt(C, StoredList, f)
    /\ legacyTotals.loaded =>
         \A f \in {"calories", "protein", "carbs", "fat"} :
           legacyTotals[f] = SumAt(C, StoredList, f)

\* the list holds an entry dated the first instant of the reference day and one
\* inside the day; both dashboards have loaded
C2_Witness ==
  /\ dashLoaded
  /\ legacyTotals.loaded
  /\ \E i, j \in DOMAIN StoredList :
       /\ StoredList[i].date = StartOfDay(now)
       /\ SameDay(StoredList[j].date, now) /\ ~OnBoundary(StoredList[j].date)
  /\ Len(dashEntries) = 1

\* C3: every entry of the day is counted in exactly one meal group: the one its
\* meal names when that is one of the four, Snack otherwise.
GroupOfClaim(e) ==
  IF e.meal \in {"Breakfast", "Lunch", "Snack", "Dinner"} THEN e.meal ELSE "Snack"

C3_OneGroupPerEntry ==
  dashLoaded =>
    \A m \in {"Breakfast", "Lunch", "Snack", "Dinner"} : \A f \in Fields :
      byMeal[m][f]
        = SumAt({i \in DOMAIN dashEntries : GroupOfClaim(dashEntries[i]) = m}, dashEntries, f)

\* an entry with the name of an added row and an entry with no meal, both counted
C3_Witness ==
  /\ dashLoaded
  /\ \E i, j \in DOMAIN dashEntries :
       dashEntries[i].meal = "Meal 4" /\ dashEntries[j].meal = NoMeal
  /\ byMeal["Snack"].calories > 0

\* C9: any permutation of the stored list yields the same totals and the same four
\* meal groups.
Permuted(list, p) == [i \in DOMAIN list |-> list[p[i]]]

C9_OrderIndependent ==
  dashLoaded =>
    \A p \in Permutations(DOMAIN StoredList) :
      LET today == TodayEntries(Permuted(StoredList, p), now) IN
        Totals(today) = totals /\ ByMeal(today) = byMeal

\* two entries of the day in the same meal group
C9_Witness ==
  /\ dashLoaded
  /\ Len(dashEntries) >= 2
  /\ \E i, j \in DOMAIN dashEntries : i # j /\ MealKey(dashEntries[i]) = MealKey(dashEntries[j])


\* C4: once a save or a delete has completed, the Dashboard's totals and meal
\* groups are the summary of the stored list for the current day.
C4_DashboardShowsStoredList ==
  (dashLoaded /\ saves = {} /\ lastWrite.kind \in {"save", "delete"}) =>
    /\ totals = Totals(TodayEntries(StoredList, now))
    /\ byMeal = ByMeal(TodayEntries(StoredList, now))

\* C5: a delete by id removes from the stored list the entry of that id and no
\* other: the list after it is the list before it without that entry, in order.
C5_DeleteRemovesOnlyThatId ==
  [][\A id \in 1 .. MaxIds :
       deleteEntry(id) =>
         LoadEntriesOf(store') = SelectSeq(StoredList, LAMBDA e : e.id # id)]_entryVars

\* C6: the list a replacement of the document is computed from is one the
\* operation loaded itself: for a save the result of its own loadEntries, for a
\* delete, which never suspends, the list stored when it runs.
C6_ReplacementFromOwnLoad ==
  [][/\ \A op \in saves : SaveWrite(op) => (op.loaded /\ lastWrite'.basis = op.existing)
     /\ \A id \in 1 .. MaxIds : deleteEntry(id) => lastWrite'.basis = StoredList]_entryVars

\* C8: after a save of the batch N that loaded the list L, the store holds N
\* followed by L: the new entries first, in submission order, then the older ones
\* in their order.
C8_SavePrepends ==
  lastWrite.kind = "save" =>
    LET N == lastWrite.batch
        L == lastWrite.basis
    IN /\ N # <<>>
       /\ store.present
       /\ Len(StoredList) = Len(N) + Len(L)
       /\ \A i \in DOMAIN N : StoredList[i] = N[i]
       /\ \A j \in DOMAIN L : StoredList[Len(N) + j] = L[j]

\* a batch saved onto a list of two entries
C8_Witness ==
  /\ lastWrite.kind = "save"
  /\ Len(lastWrite.basis) >= 2
  /\ Len(StoredList) = Len(lastWrite.batch) + 2


\* C7: the goals the Dashboard shows and measures progress against are the saved
\* goals: once a goal set is stored, the Dashboard's goals equal it.
C7_DashboardUsesSavedGoals == goalsStore.present => GOALS = goalsStore.doc

\* C10: a progress bar rendered with a goal <= 0 shows 0, whatever the value.
IsZero(x) == x.k = "fin" /\ x.num = 0

C10_ZeroForNonPositiveGoal ==
  /\ (pct # NotRendered /\ pGoal <= 0) => IsZero(pct)
  /\ (statWidth # NotRendered /\ pGoal <= 0) => IsZero(statWidth)


\* C11: for a value >= 0 and a goal > 0 the bar shows value / goal of its width,
\* and all of it when the value is over the goal.
IsRatioOf(x, value, goal) ==
  IF value <= goal
    THEN x.k = "fin" /\ x.num * goal = 100 * value * x.den
    ELSE x = Fraction(100, 1)

C11_RatioClampedToWholeBar ==
  (pValue >= 0 /\ pGoal > 0) =>
    /\ pct # NotRendered => IsRatioOf(pct, pValue, pGoal)
    /\ statWidth # NotRendered => IsRatioOf(statWidth, pValue, pGoal)

\* both bars rendered with a value over a positive goal
C11_Witness ==
  /\ pGoal > 0
  /\ pValue > pGoal
  /\ pct = Fraction(100, 1)
  /\ statWidth = Fraction(100, 1)


\* C12: one submission creates one entry for each row with a value over 0, in row
\* order, under the row's name and with the row's values, and none for the others.
PositiveRows(rows) ==
  {i \in DOMAIN rows : \E f \in FormFields : rows[i][f].t = "numstr" /\ rows[i][f].n > 0}

NthOf(S, k) == CHOOSE i \in S : Cardinality({j \in S : j < i}) = k - 1

TypedValue(v) == IF v.t = "numstr" THEN JsNum(v.n) ELSE JsNum(0)

C12_OneEntryPerRowWithAValue ==
  [][\A rows \in ValidRows(nRows) :
       Submit(rows) =>
         LET P == PositiveRows(rows) IN
           IF P = {} THEN saves' = saves /\ store' = store
           ELSE \E op \in saves' \ saves :
                  /\ Len(op.batch) = Cardinality(P)
                  /\ \A k \in 1 .. Len(op.batch) :
                       /\ op.batch[k].name = RowName(NthOf(P, k))
                       /\ \A f \in FormFields :
                            op.batch[k][f] = TypedValue(rows[NthOf(P, k)][f])]_vars

\* a submission of Breakfast with values, Lunch without and Dinner with sugar alone
C12_Witness ==
  \E op \in saves :
    /\ Len(op.batch) = 2
    /\ op.batch[1].name = "Breakfast" /\ op.batch[1].calories = JsNum(5)
    /\ op.batch[2].name = "Dinner" /\ op.batch[2].sugar = JsNum(4)
    /\ op.batch[2].calories = JsNum(0)

\* C13: a submission with text that is no number in a nutrition field goes through
\* with 0 in that field, and so does an edit of a goal field.
TextRows(rows) == {i \in DOMAIN rows : \E f \in FormFields : rows[i][f].t = "text"}
NoNegative(rows) ==
  \A i \in DOMAIN rows : \A f \in FormFields : ~(rows[i][f].t = "numstr" /\ rows[i][f].n < 0)

C13_NonNumericInputBecomesZero ==
  [][/\ \A rows \in InvalidRows(nRows) :
          (handleSubmit(rows) /\ TextRows(rows) # {} /\ NoNegative(rows)) =>
            /\ formErrors' = {}
            /\ \E op \in saves' \ saves :
                 \A i \in TextRows(rows) :
                   \E k \in DOMAIN op.batch :
                     /\ op.batch[k].name = RowName(i)
                     /\ \A f \in FormFields :
                          rows[i][f].t = "text" => op.batch[k][f] = JsNum(0)
     /\ \A key \in Fields, text \in GoalTexts :
          (update(key, text) /\ NumberOf(StripNonNumeric(text)).t = "nan")
            => goals'[key] = JsNum(0)]_vars


\* C14: a document that is not JSON loads as the empty list, or as the default
\* goals, and no error is left uncaught: every load, the one inside a save
\* included, completes with that value.
C14_MalformedDocumentIsRecoverable ==
  /\ uncaught = {}
  /\ (histMounted /\ "entries" \in corrupt) => histEntries = <<>>
  /\ (dashLoaded /\ "entries" \in corrupt) => dashEntries = <<>>
  /\ (goalsLoaded /\ "goals" \in corrupt) => goals = DEFAULT_GOALS
  /\ \A op \in saves : op.loaded => (op.existing = <<>> \/ "entries" \notin corrupt)


\* C15: a field that is missing or not numeric counts for 0 in the totals and in
\* its meal group, the other fields and entries are summed, and nothing is thrown.
CountedValue(v) == IF v.t \in {"undefined", "null", "text"} THEN 0 ELSE v.n

RECURSIVE CountedSum(_, _, _)
CountedSum(S, list, f) ==
  IF S = {} THEN 0
  ELSE LET i == CHOOSE x \in S : TRUE
       IN CountedValue(list[i][f]) + CountedSum(S \ {i}, list, f)

C15_MissingOrNonNumericCountsZero ==
  /\ uncaught = {}
  /\ dashLoaded =>
       \A f \in Fields :
         /\ totals[f] = CountedSum(DOMAIN dashEntries, dashEntries, f)
         /\ \A m \in {"Breakfast", "Lunch", "Snack", "Dinner"} :
              byMeal[m][f]
                = CountedSum({i \in DOMAIN dashEntries : GroupOfClaim(dashEntries[i]) = m},
                             dashEntries, f)

\* the day has an entry whose carbs are text and one with no fiber
C15_Witness ==
  /\ dashLoaded
  /\ \E i, j \in DOMAIN dashEntries :
       /\ dashEntries[i].carbs.t = "text"
       /\ dashEntries[j].fiber.t = "undefined"
       /\ i # j
       /\ totals.calories = dashEntries[i].calories.n + dashEntries[j].calories.n
       /\ totals.carbs = CountedValue(dashEntries[j].carbs)

\* C16: the meal groups are always the four meals, each with the five fields, and
\* a meal without an entry of the day has them all 0.
C16_FourGroupsOfFiveFields ==
  /\ DOMAIN byMeal = {"Breakfast", "Lunch", "Snack", "Dinner"}
  /\ \A m \in DOMAIN byMeal :
       /\ DOMAIN byMeal[m] = {"calories", "protein", "carbs", "fat", "fiber"}
       /\ (\A i \in DOMAIN dashEntries : GroupOfClaim(dashEntries[i]) # m)
            => \A f \in DOMAIN byMeal[m] : byMeal[m][f] = 0

\* two entries of the day, none of them a Dinner
C16_Witness ==
  /\ dashLoaded
  /\ Len(dashEntries) = 2
  /\ \A i \in DOMAIN dashEntries : GroupOfClaim(dashEntries[i]) # "Dinner"
  /\ \A f \in Fields : byMeal["Dinner"][f] = 0
  /\ byMeal["Snack"].calories > 0

\* C17: with nothing stored a load returns the empty list, and the summary of the
\* empty list is 0 in every total and every field of every meal group; nothing is
\* thrown.
C17_NothingStoredGivesZeroSummary ==
  /\ uncaught = {}
  /\ ~store.present => LoadEntriesOf(store) = <<>>
  /\ (dashLoaded /\ lastWrite.kind = "none") =>
       /\ dashEntries = <<>>
       /\ \A f \in Fields : totals[f] = 0
       /\ \A m \in {"Breakfast", "Lunch", "Snack", "Dinner"} : \A f \in Fields : byMeal[m][f] = 0

\* the Dashboard has loaded from a store that holds nothing
C17_Witness == dashLoaded /\ ~store.present /\ lastWrite.kind = "none"

\* C18: no two entries of the stored list have the same id.
C18_IdsAreUnique ==
  \A i, j \in DOMAIN StoredList : i # j => StoredList[i].id # StoredList[j].id

\* the store holds as many entries as ids were handed out
C18_Witness == Len(StoredList) = MaxIds /\ nextId = MaxIds + 1

\* C19: every entry handed to saveEntries or stored has its six quantities numeric
\* and >= 0.
NonNegativeEntry(e) == \A f \in FormFields : e[f].t = "number" /\ e[f].n >= 0

C20_EntriesNeverMutated ==
  [][\A i \in DOMAIN StoredList : \A j \in DOMAIN LoadEntriesOf(store') :
       StoredList[i].id = LoadEntriesOf(store')[j].id
         => StoredList[i] = LoadEntriesOf(store')[j]]_vars

\* an entry is still stored after the delete of another
C20_Witness == lastWrite.kind = "delete" /\ StoredList # <<>>


\* C21: a goal set that is saved is read back equal field for field, and the Goals
\* screen loading it shows it.
C21_GoalsRoundTrip ==
  [][/\ save => (goalsStore'.present /\ ParseGoals(goalsStore'.doc) = goals)
     /\ (GoalsLoad /\ goalsStore.present) => goals' = ParseGoals(goalsStore.doc)]_vars


\* C22: with no goal set stored, the Goals screen shows after its load the defaults
\* 1760, 120, 230, 50 and 25, the values the Dashboard uses.
C22_DefaultsWhenNothingStored ==
  [][(GoalsLoad /\ ~goalsStore.present) =>
       /\ goals' = GOALS
       /\ goals' = [calories |-> JsNum(1760 * GoalScale), protein |-> JsNum(120 * GoalScale),
                    carbs |-> JsNum(230 * GoalScale), fat |-> JsNum(50 * GoalScale),
                    fiber |-> JsNum(25 * GoalScale)]]_vars

\* the Goals screen has loaded with nothing stored
C22_Witness == goalsLoaded /\ ~goalsStore.present /\ goalEdits = 0 /\ goals = GOALS


\* C23: loading and summarising the day writes nothing and changes no entry: the
\* stored list stays as it was, every entry the Dashboard holds is an entry of the
\* stored list as stored, and summarising the same stored list for the same day
\* again, on either dashboard, gives the same summary.
C23_SummaryHasNoSideEffects ==
  [][/\ store' = store
     /\ lastWrite' = lastWrite
     /\ dashLoaded' =>
          /\ \A i \in DOMAIN dashEntries' :
               \E j \in DOMAIN StoredList : dashEntries'[i] = StoredList[j]
          /\ Totals(TodayEntries(LoadEntriesOf(store'), now')) = Totals(dashEntries')
          /\ ByMeal(TodayEntries(LoadEntriesOf(store'), now')) = ByMeal(dashEntries')
     /\ (dashLoaded' /\ legacyTotals'.loaded) =>
          \A f \in {"calories", "protein", "carbs", "fat"} :
            legacyTotals'[f] = Totals(dashEntries')[f]]_vars

\* both dashboards have summarised a day with an entry of no meal
C23_Witness ==
  /\ dashLoaded
  /\ legacyTotals.loaded
  /\ lastWrite = NoWrite
  /\ \E i \in DOMAIN dashEntries : dashEntries[i].meal = NoMeal
  /\ legacyTotals.calories > 0


\* C24: stored lists that differ only in the sugar and sodium of their entries
\* yield the same totals and the same meal groups.
OtherValues == {JsNum(0), JsNum(7), JsText}

WithSugarAndSodium(list, sugar, sodium) ==
  [i \in DOMAIN list |-> [list[i] EXCEPT !.sugar = sugar[i], !.sodium = sodium[i]]]

C24_SugarAndSodiumDoNotCount ==
  dashLoaded =>
    \A sugar, sodium \in [DOMAIN StoredList -> OtherValues] :
      LET today == TodayEntries(WithSugarAndSodium(StoredList, sugar, sodium), now) IN
        Totals(today) = totals /\ ByMeal(today) = byMeal

\* two entries of the day, both with sugar and sodium
C24_Witness ==
  /\ dashLoaded
  /\ Len(dashEntries) = 2
  /\ \A i \in DOMAIN dashEntries :
       NumOr0(dashEntries[i].sugar) > 0 /\ NumOr0(dashEntries[i].sodium) > 0
  /\ totals.calories > 0


\* C25: once every submission has completed, also of submissions that overlapped,
\* the stored list holds the entries of all of them and all entries stored before.
StoredIds == {StoredList[i].id : i \in DOMAIN StoredList}

C25_OverlappingSavesKeepAll == saves = {} => StoredIds = 1 .. nextId - 1


\* C26: a submission in which no row has a value over 0 leaves the stored list as
\* it was, starts no read-modify-write of the store, and alerts 'Nothing to save'.
C26_EmptySubmissionWritesNothing ==
  [][\A rows \in ValidRows(nRows) :
       (Submit(rows) /\ PositiveRows(rows) = {}) =>
         /\ store' = store
         /\ lastWrite' = lastWrite
         /\ saves' = saves
         /\ alertMsg' = "Nothing to save"]_vars

\* a form without values was submitted over a store that holds entries
C26_Witness ==
  /\ alertMsg = "Nothing to save"
  /\ saves = {}
  /\ StoredList # <<>>
  /\ lastWrite.kind = "save"
  /\ StoredList = Updated(lastWrite.batch, lastWrite.basis)


\* C27: an edit of a goal field leaves the stored goal set as it was, and Save
\* Goals stores the goal set the screen holds, all five fields with their values.
C27_EditsStayInMemoryUntilSave ==
  [][/\ \A key \in Fields, text \in GoalTexts :
          update(key, text) => goalsStore' = goalsStore
     /\ save => /\ goalsStore'.present
                /\ DOMAIN goalsStore'.doc = DOMAIN goals
                /\ \A f \in DOMAIN goals : ParseGoals(goalsStore'.doc)[f] = goals[f]]_vars

\* C28: a Reset to defaults leaves the goal set the screen holds and the stored
\* goal set both equal to the defaults, whatever edits and saves came before.
C28_ResetRestoresDefaults ==
  [][reset => /\ goals' = DEFAULT_GOALS
              /\ goalsStore'.present
              /\ ParseGoals(goalsStore'.doc) = DEFAULT_GOALS]_vars

\* the defaults are back on the screen and in the store after the last edit
C28_Witness ==
  /\ ~goalsLoaded
  /\ goalEdits = MaxEdits
  /\ goals = DEFAULT_GOALS
  /\ goalsStore.present
  /\ goalsStore.doc = DEFAULT_GOALS

\* C29: every field of the goal set the screen holds is a finite number >= 0.
C29_GoalsFiniteAndNonNegative ==
  \A f \in Fields : goals[f].t = "number" /\ goals[f].n >= 0

====
